---- MODULE Spec2Model ----
(***************************************************************************)
(* A model of the fetch-summarize-aggregate pipeline of src/main.py,       *)
(* src/utils/summarizer.py and src/utils/github_fetcher.py.                *)
(*                                                                         *)
(* The module holds these specifications over one set of variables:        *)
(*   SpecGate      the semaphore under more gated calls than it has        *)
(*                 permits (the calls are counted per coroutine state);    *)
(*   SpecGateLive  the same with the awaited calls coming back;            *)
(*   SpecCall      a few gated calls with identity, each driven by a       *)
(*                 provider stub that fails a scripted number of times;    *)
(*   SpecMain      the two coordinators of main.py, analyze_repo and       *)
(*                 summarize_files_stream, and summarize_project over a    *)
(*                 staging directory;                                      *)
(*   SpecChunk     chunk_content on one content;                           *)
(*   SpecRuns      pipeline runs made of summarize_file and                *)
(*                 summarize_project, one or two at a time;                *)
(*   SpecFetch     one fetch against a server with faults;                 *)
(*   SpecReports   two calls of summarize_project while time passes.       *)
(* A variable a specification does not use keeps its initial value.        *)
(***************************************************************************)
EXTENDS Integers, Sequences, FiniteSets, Bags, TLC

VARIABLES
    sem,        \* GEMINI_SEMAPHORE._value: the free permits
    aclient,    \* whether OPENAI_API_KEY was set at import (aclient is not None)
    gate,       \* SpecGate: bag of the coroutine states of the live gated calls
    returned,   \* SpecGate: number of gated calls that have returned
    calls,      \* SpecCall: the coroutine state of each gated call
    script,     \* SpecCall: the failures each call's primary stub starts with
    stub,       \* SpecCall: the failures each call's primary stub has left
    log,        \* SpecCall: per call, the provider calls and sleeps so far
    models,     \* whether model_file and model_project were initialized
    trigger,    \* SpecMain: the entry point the run came in by
    store,      \* the files present in TEMP_SUMMARY_DIR
    store0,     \* the files present in TEMP_SUMMARY_DIR when the run began
    agg,        \* the coroutine state of summarize_project
    batch,      \* the coroutine state of analyze_repo
    stream,     \* the generator state of summarize_files_stream
    disconnected, \* what request.is_disconnected() answers
    stagingLog, \* the staging writes summarize_file has attempted
    content,    \* SpecChunk: the text handed to chunk_content
    chunk_size, \* SpecChunk: the chunk_size handed to chunk_content
    chunks,     \* SpecChunk: what chunk_content returned
    runs,       \* SpecRuns: the coroutine state of each pipeline run
    staging,    \* SpecRuns: what each file of TEMP_SUMMARY_DIR holds
    server,     \* SpecFetch: what the GitHub API answers
    fetched,    \* SpecFetch: the fetch call and what it returned
    clock,      \* SpecReports: the time datetime.now() reads, in ticks
    reporters,  \* SpecReports: the coroutine state of each summarize_project
    reports     \* SpecReports: the report files and the run that wrote each

gateVars == <<gate, returned>>
callVars == <<calls, script, stub, log>>
mainVars == <<trigger, store, store0, agg, batch, stream, disconnected,
              stagingLog>>
chunkVars == <<content, chunk_size, chunks>>
runVars == <<runs, staging>>
fetchVars == <<server, fetched>>
reportVars == <<clock, reporters, reports>>
unitVars == <<chunkVars, runVars, fetchVars, reportVars>>
vars == <<sem, aclient, models, gateVars, callVars, mainVars, unitVars>>

-----------------------------------------------------------------------------
(* Program constants.                                                      *)

GEMINI_CONCURRENCY_LIMIT == 15
max_retries == 3
initial_delay == 5
BATCH_SIZE == 5
CHUNK_SIZE == 4000
\* The positional parameters of summarize_file(path, content).
SummarizeFileParams == 2
\* The positional arguments analyze_repo and summarize_files_stream call
\* summarize_file with: path, content and sha.
BatchCallArgs == 3
StreamCallArgs == 3

(* Bounds of the model.                                                    *)

\* SpecGate starts GEMINI_CONCURRENCY_LIMIT + ExtraCalls gated calls.
ExtraCalls == 1
\* SpecCall: a primary stub fails at most this many times before it succeeds.
MaxFailures == 4
\* SpecMain: summarize_project is handed at most this many staging locations.
MaxPaths == 6
\* SpecMain: at most this many staged files are missing when the run begins,
\* and at most this many os.remove calls of one cleanup fail.
MaxFaults == 1
\* SpecChunk: the pieces (words and runs of white space) of a content, the
\* small lengths of a piece, and the small chunk sizes.
MaxPieces == 3
MaxPieceLen == 2
MaxChunkSize == 3
\* SpecRuns: the chunks of the file of the run of one file.
MaxChunks == 3
\* SpecFetch: at most this many requests of one fetch are answered with a
\* failure or a malformed item.
MaxFetchFaults == 2
\* The chunk-level calls among the gated calls of SpecGateLive.
LiveChunkCalls == 2
\* SpecReports: the clock is read up to this tick.
MaxClock == 3

-----------------------------------------------------------------------------
(* The provider capabilities.                                              *)

\* generate_content_async returns text, raises ResourceExhausted, or raises
\* another exception (response.text of a blocked response raises too).
PrimaryOutcomes == {"ok", "rate_limited", "error"}
\* aclient.chat.completions.create returns a completion or raises.
OpenAIOutcomes == {"ok", "error"}

-----------------------------------------------------------------------------
(* One gated call: the coroutine state of summarize_file_chunk_async or    *)
(* summarize_project_batch_async.  pc is the await the coroutine is        *)
(* suspended at: "wait" (async with GEMINI_SEMAPHORE, no permit yet),      *)
(* "primary" (generate_content_async), "sleep" (asyncio.sleep), "openai"   *)
(* (aclient.chat.completions.create), or "done" (returned).  The counters  *)
(* record what the coroutine has done so far.                              *)

NewCall(kind) ==
    [kind |-> kind, pc |-> "wait", attempt |-> 0, delay |-> initial_delay,
     result |-> "none", acquires |-> 0, releases |-> 0,
     primaryCalls |-> 0, fallbackCalls |-> 0, openaiCalls |-> 0]

\* The semaphore lets a caller in while a permit is free.
CanAcquireOffByOne(s) == s >= 0
CanAcquire(s) == s > 0

\* Leaving the async with block gives the permit back, whatever is returned.
ExitGateLeakOnFallback(s, text) ==
    IF text \in {"OpenAIText", "OpenAIErrorMarker", "OpenAINoKeyMarker"}
    THEN s ELSE s + 1
ExitGate(s, text) == s + 1

\* return <text> inside the async with block.
Returned(call, text) ==
    [call EXCEPT !.pc = "done", !.result = text, !.releases = @ + 1]

\* summarize_with_openai_async up to its first await.
OpenAINoKeyCheckMissing(call) ==
    [call EXCEPT !.pc = "openai", !.fallbackCalls = @ + 1, !.openaiCalls = @ + 1]
summarize_with_openai_async(call) ==
    IF ~aclient
    THEN Returned([call EXCEPT !.fallbackCalls = @ + 1], "OpenAINoKeyMarker")
    ELSE [call EXCEPT !.pc = "openai", !.fallbackCalls = @ + 1,
                      !.openaiCalls = @ + 1]

\* summarize_with_openai_async after the await: the completion's text, or the
\* exception folded into a marker string.
OpenAIReturnsPropagates(call, outcome) ==
    IF outcome = "ok" THEN Returned(call, "OpenAIText")
    ELSE Returned(call, "raised")
OpenAIReturns(call, outcome) ==
    IF outcome = "ok" THEN Returned(call, "OpenAIText")
    ELSE Returned(call, "OpenAIErrorMarker")

\* The permit is taken; summarize_file_chunk_async enters its for loop,
\* summarize_project_batch_async its try block.
Entered(call) ==
    LET in == [call EXCEPT !.acquires = @ + 1] IN
    IF call.kind = "chunk" /\ max_retries = 0
    THEN summarize_with_openai_async(in)
    ELSE [in EXCEPT !.pc = "primary", !.primaryCalls = @ + 1]

\* The last attempt is the one with attempt + 1 == max_retries.
IsLastAttemptOneMore(call) == call.attempt = max_retries
IsLastAttempt(call) == call.attempt + 1 = max_retries

\* summarize_file_chunk_async: what follows one generate_content_async.
ChunkPrimaryReturns(call, outcome) ==
    IF outcome = "ok" THEN Returned(call, "PrimaryText")
    ELSE IF IsLastAttempt(call) THEN summarize_with_openai_async(call)
    ELSE [call EXCEPT !.pc = "sleep"]

\* The seconds the retry sleeps for.
WaitTimeNoLinearTerm(call, outcome) == call.delay
WaitTime(call, outcome) ==
    IF outcome = "rate_limited" THEN call.delay + (call.attempt * 2)
    ELSE call.delay

\* After the sleep: delay *= 2, and the loop's next attempt.
SleepReturns(call) ==
    [call EXCEPT !.pc = "primary", !.attempt = @ + 1, !.delay = @ * 2,
                 !.primaryCalls = @ + 1]

\* summarize_project_batch_async: what follows its one generate_content_async.
BatchPrimaryReturns(call, outcome) ==
    IF outcome = "ok" THEN Returned(call, "PrimaryText")
    ELSE IF outcome = "rate_limited" THEN summarize_with_openai_async(call)
    ELSE Returned(call, "BatchErrorText")

PrimaryReturns(call, outcome) ==
    IF call.kind = "chunk" THEN ChunkPrimaryReturns(call, outcome)
    ELSE BatchPrimaryReturns(call, outcome)

\* A call between its acquire and its release.
HoldsPermit(call) == call.pc \in {"primary", "sleep", "openai"}

\* The semaphore after a step that took a call from state a to state b.
SemAfter(s, a, b) ==
    IF b.pc = "done" /\ a.pc # "wait" THEN ExitGate(s, b.result)
    ELSE IF b.pc = "done" THEN ExitGate(s - 1, b.result)
    ELSE IF a.pc = "wait" THEN s - 1
    ELSE s

-----------------------------------------------------------------------------
(* The staging directory, the fetched files and the idle coroutines.       *)

\* A path is a sequence of tokens: names, "/" and "\\" separators, and a last
\* token that is the suffix str.endswith looks at.
Names == <<"a", "b", "c", "d", "e", "f", "g", "h">>

\* safe_filename = path.replace('/', '_').replace('\\', '_'), and
\* os.path.join(TEMP_SUMMARY_DIR, f"{safe_filename}.md").
SafeFilename(path) ==
    [i \in DOMAIN path |-> IF path[i] \in {"/", "\\"} THEN "_" ELSE path[i]]
StagingLocation(path) ==
    <<"temp_summaries", "/">> \o SafeFilename(path) \o <<".md">>

\* The staging locations summarize_project is handed when it is called
\* directly: those of the files <name>.py.
AggLoc(i) == StagingLocation(<<Names[i], ".py">>)

\* The variables of SpecMain where main.py and summarize_project are idle.
IdleAgg ==
    [pc |-> "idle", caller |-> "none", paths |-> <<>>, calls |-> <<>>,
     batches |-> <<>>, overview |-> "none", body |-> <<>>, order |-> <<>>,
     writeOk |-> "none", removeFailed |-> {}, result |-> "none"]
IdleBatch ==
    [pc |-> "idle", files |-> <<>>, todo |-> <<>>, summary_paths |-> <<>>,
     response |-> "none"]
IdleStream ==
    [pc |-> "idle", files |-> <<>>, todo |-> <<>>, idx |-> 1, events |-> <<>>,
     file_summary_paths |-> <<>>, cancelled |-> FALSE]
MainIdle ==
    /\ trigger = "none"
    /\ store = {}
    /\ store0 = {}
    /\ agg = IdleAgg
    /\ batch = IdleBatch
    /\ stream = IdleStream
    /\ disconnected = FALSE
    /\ stagingLog = <<>>

\* The variables of SpecChunk, SpecRuns and SpecFetch where nothing is
\* chunked, no run is made and nothing is fetched.
ChunkIdle ==
    /\ content = <<>>
    /\ chunk_size = 1
    /\ chunks = [pc |-> "idle", lines |-> <<>>]
RunsIdle ==
    /\ runs = <<>>
    /\ staging = <<>>
FetchIdle ==
    /\ server = {}
    /\ fetched = [pc |-> "idle"]
ReportsIdle ==
    /\ clock = 0
    /\ reporters = <<>>
    /\ reports = <<>>
UnitIdle == ChunkIdle /\ RunsIdle /\ FetchIdle /\ ReportsIdle

-----------------------------------------------------------------------------
(* SpecGate: GEMINI_CONCURRENCY_LIMIT + ExtraCalls gated calls share the   *)
(* semaphore: one batch-level call, the others chunk-level.  The live      *)
(* calls are kept as a bag of coroutine states; a call that returns leaves *)
(* the bag.                                                                *)

\* The variables of SpecCall where no call is made.
CallIdle ==
    /\ calls = <<>>
    /\ script = <<>>
    /\ stub = <<>>
    /\ log = <<>>

NumGateCalls == GEMINI_CONCURRENCY_LIMIT + ExtraCalls

BagOf(x, n) == IF n = 0 THEN EmptyBag ELSE [e \in {x} |-> n]

\* One call moves from state a to state b.
GateMove(a, b) ==
    /\ sem' = SemAfter(sem, a, b)
    /\ gate' = IF b.pc = "done" THEN gate (-) BagOf(a, 1)
               ELSE (gate (-) BagOf(a, 1)) (+) BagOf(b, 1)
    /\ returned' = IF b.pc = "done" THEN returned + 1 ELSE returned
    /\ UNCHANGED <<unitVars, aclient, models, callVars, mainVars>>

GateInit ==
    /\ sem = GEMINI_CONCURRENCY_LIMIT
    /\ aclient \in BOOLEAN
    /\ gate = BagOf(NewCall("chunk"), NumGateCalls - 1)
              (+) BagOf(NewCall("batch"), 1)
    /\ returned = 0
    /\ models = TRUE
    /\ CallIdle
    /\ MainIdle
    /\ UnitIdle

GateAcquire ==
    \E a \in BagToSet(gate) :
        /\ a.pc = "wait"
        /\ CanAcquire(sem)
        /\ GateMove(a, Entered(a))

GatePrimaryReturns ==
    \E a \in BagToSet(gate), outcome \in PrimaryOutcomes :
        /\ a.pc = "primary"
        /\ GateMove(a, PrimaryReturns(a, outcome))

GateSleepReturns ==
    \E a \in BagToSet(gate) :
        /\ a.pc = "sleep"
        /\ GateMove(a, SleepReturns(a))

GateOpenAIReturns ==
    \E a \in BagToSet(gate), outcome \in OpenAIOutcomes :
        /\ a.pc = "openai"
        /\ GateMove(a, OpenAIReturns(a, outcome))

GateNext ==
    \/ GateAcquire
    \/ GatePrimaryReturns
    \/ GateSleepReturns
    \/ GateOpenAIReturns

SpecGate == GateInit /\ [][GateNext]_vars

\* The number of live calls that hold a permit.
RECURSIVE SumOver(_, _)
SumOver(S, b) ==
    IF S = {} THEN 0
    ELSE LET x == CHOOSE y \in S : TRUE IN
         (IF HoldsPermit(x) THEN CopiesIn(x, b) ELSE 0) + SumOver(S \ {x}, b)
InFlight == SumOver(BagToSet(gate), gate)

\* C1: at every instant the number of gated calls (chunk-level and
\* batch-level, in a provider call, a backoff sleep or the fallback) that hold
\* a permit is at most GEMINI_CONCURRENCY_LIMIT.
C1_CapNeverExceeded == InFlight <= GEMINI_CONCURRENCY_LIMIT /\ sem >= 0

\* The cap is reached while another call is still waiting, with holders in
\* a backoff sleep and in the fallback.
C1_Witness ==
    /\ InFlight = GEMINI_CONCURRENCY_LIMIT
    /\ \E a \in BagToSet(gate) : a.pc = "wait"
    /\ \E a \in BagToSet(gate) : a.pc = "sleep"
    /\ \E a \in BagToSet(gate) : a.pc = "openai"
    /\ \E a \in BagToSet(gate) : a.kind = "batch" /\ a.pc = "primary"

-----------------------------------------------------------------------------
(* SpecCall: two gated calls, each chunk-level or batch-level, each with a *)
(* primary stub that fails as its script says (rate limit or other error,  *)
(* in any mix) and succeeds once the script is used up.                    *)

CallIds == {1, 2}
FailureKinds == {"rate_limited", "error"}

RECURSIVE SeqsUpTo(_, _)
SeqsUpTo(S, n) ==
    IF n = 0 THEN {<<>>}
    ELSE LET shorter == SeqsUpTo(S, n - 1) IN
         shorter \cup {Append(q, x) : q \in shorter, x \in S}
Scripts == SeqsUpTo(FailureKinds, MaxFailures)

\* What the stub answers to its next call.
StubOutcome(c) == IF stub[c] = <<>> THEN "ok" ELSE Head(stub[c])

\* The gated call c moves from its state to state b, logging entry e.
CallMove(c, b, e) ==
    /\ sem' = SemAfter(sem, calls[c], b)
    /\ calls' = [calls EXCEPT ![c] = b]
    /\ log' = [log EXCEPT ![c] = Append(@, e)]
    /\ UNCHANGED <<unitVars, aclient, models, script, gateVars, mainVars>>

CallInit ==
    /\ sem = GEMINI_CONCURRENCY_LIMIT
    /\ aclient \in BOOLEAN
    /\ gate = EmptyBag
    /\ returned = 0
    /\ calls \in [CallIds -> {NewCall("chunk"), NewCall("batch")}]
    /\ script \in [CallIds -> Scripts]
    /\ stub = script
    /\ log = [c \in CallIds |-> <<>>]
    /\ models = TRUE
    /\ MainIdle
    /\ UnitIdle

CallAcquire(c) ==
    /\ calls[c].pc = "wait"
    /\ CanAcquire(sem)
    /\ CallMove(c, Entered(calls[c]), [what |-> "acquire", arg |-> "none"])
    /\ UNCHANGED stub

CallPrimaryReturns(c) ==
    /\ calls[c].pc = "primary"
    /\ LET outcome == StubOutcome(c)
           b == PrimaryReturns(calls[c], outcome) IN
       /\ CallMove(c, b, [what |-> "primary", arg |-> outcome])
       /\ stub' = [stub EXCEPT ![c] = IF @ = <<>> THEN @ ELSE Tail(@)]

\* The sleep a failed attempt that is not the last one is followed by; the
\* log keeps its seconds.
CallSleepReturns(c) ==
    /\ calls[c].pc = "sleep"
    /\ CallMove(c, SleepReturns(calls[c]),
                [what |-> "sleep",
                 arg |-> WaitTime(calls[c], log[c][Len(log[c])].arg)])
    /\ UNCHANGED stub

CallOpenAIReturns(c) ==
    /\ calls[c].pc = "openai"
    /\ \E outcome \in OpenAIOutcomes :
           CallMove(c, OpenAIReturns(calls[c], outcome),
                    [what |-> "openai", arg |-> outcome])
    /\ UNCHANGED stub

CallStep(c) ==
    \/ CallAcquire(c)
    \/ CallPrimaryReturns(c)
    \/ CallSleepReturns(c)
    \/ CallOpenAIReturns(c)

CallNext == \E c \in CallIds : CallStep(c)

SpecCall == CallInit /\ [][CallNext]_vars

Done(c) == calls[c].pc = "done"
ChunkIds == {c \in CallIds : calls[c].kind = "chunk"}
BatchIds == {c \in CallIds : calls[c].kind = "batch"}
LastLog(c) == log[c][Len(log[c])]

\* C2: every gated call takes one permit and gives it back once, on every
\* exit path; the free permits are the cap less the calls between their
\* acquire and their return, so all permits are free once every call returned.
C2_OnePermitPerCall ==
    /\ \A c \in CallIds :
        /\ calls[c].acquires <= 1
        /\ calls[c].releases <= calls[c].acquires
        /\ calls[c].acquires = (IF calls[c].pc = "wait" THEN 0 ELSE 1)
        /\ calls[c].releases = (IF Done(c) THEN 1 ELSE 0)
    /\ sem = GEMINI_CONCURRENCY_LIMIT
             - Cardinality({c \in CallIds : HoldsPermit(calls[c])})
    /\ (\A c \in CallIds : Done(c)) => sem = GEMINI_CONCURRENCY_LIMIT

\* All calls have returned, a chunk-level one through the fallback's error
\* marker after its retries ran out, a batch-level one with the provider's
\* error text.
C2_Witness ==
    /\ \A c \in CallIds : Done(c)
    /\ \E c \in ChunkIds : calls[c].result = "OpenAIErrorMarker"
    /\ \E c \in BatchIds : calls[c].result = "BatchErrorText"
    /\ sem = GEMINI_CONCURRENCY_LIMIT

\* C3: a chunk-level call whose primary fails N times and then succeeds
\* returns the primary's text after N + 1 primary calls and no fallback call
\* when N < max_retries; when N >= max_retries it makes max_retries primary
\* calls and one fallback call.  The failures are of either kind, in any mix.
C3_RetryLadder ==
    \A c \in ChunkIds :
        /\ calls[c].primaryCalls <= max_retries
        /\ calls[c].fallbackCalls <= 1
        /\ Done(c) =>
            IF Len(script[c]) < max_retries
            THEN /\ calls[c].result = "PrimaryText"
                 /\ calls[c].primaryCalls = Len(script[c]) + 1
                 /\ calls[c].fallbackCalls = 0
            ELSE /\ calls[c].primaryCalls = max_retries
                 /\ calls[c].fallbackCalls = 1
                 /\ calls[c].result # "PrimaryText"

\* One chunk-level call went to the fallback after a mix of rate limits and
\* other errors that outlasts the retries, another succeeded at its last
\* attempt.
C3_Witness ==
    \E c, d \in ChunkIds :
        /\ Done(c) /\ Done(d)
        /\ Len(script[c]) > max_retries
        /\ \E i, j \in 1..max_retries : script[c][i] # script[c][j]
        /\ calls[c].fallbackCalls = 1
        /\ Len(script[d]) = max_retries - 1
        /\ calls[d].result = "PrimaryText"

ChunkTexts ==
    {"PrimaryText", "OpenAIText", "OpenAIErrorMarker", "OpenAINoKeyMarker"}

\* C7: a chunk-level call never ends in an exception: until it returns it can
\* always take its next step, and what it returns is a text.  An error of the
\* fallback provider is returned as the error marker; without a fallback
\* credential the no-key marker is returned and the secondary provider is
\* never called.
C7_AlwaysText ==
    \A c \in ChunkIds :
        /\ calls[c].result \in ChunkTexts \cup {"none"}
        /\ Done(c) <=> calls[c].result \in ChunkTexts
        /\ ~Done(c) => ENABLED CallStep(c)
        /\ (Len(log[c]) > 0 /\ LastLog(c) = [what |-> "openai", arg |-> "error"])
               => Done(c) /\ calls[c].result = "OpenAIErrorMarker"
        /\ ~aclient =>
               /\ calls[c].openaiCalls = 0
               /\ calls[c].fallbackCalls = 1
                      => Done(c) /\ calls[c].result = "OpenAINoKeyMarker"
        /\ aclient => calls[c].openaiCalls = calls[c].fallbackCalls

\* A chunk-level call returned the fallback's error as a marker, and (in a
\* run without the credential) one returned the no-key marker.
C7_WitnessError ==
    \E c \in ChunkIds :
        /\ Done(c)
        /\ LastLog(c) = [what |-> "openai", arg |-> "error"]
        /\ calls[c].result = "OpenAIErrorMarker"
C7_WitnessNoKey ==
    \E c \in ChunkIds :
        /\ ~aclient /\ Done(c)
        /\ calls[c].fallbackCalls = 1 /\ calls[c].openaiCalls = 0
        /\ calls[c].result = "OpenAINoKeyMarker"

-----------------------------------------------------------------------------
(* The fetched mapping and the filter of main.py.                          *)

TEXT_EXTENSIONS ==
    {".py", ".js", ".ts", ".jsx", ".tsx", ".json", ".md", ".yaml", ".yml",
     ".html", ".css", ".scss", ".go", ".java", ".cs", ".php", ".rb", ".rs",
     ".swift", "dockerfile", ".env.example", ".gitignore", ".toml", ".ini",
     ".xml", ".sh", ".sql", ".properties", ".gradle", "requirements.txt",
     "package.json", "composer.json"}

\* The files a repository may hold.  content is "text" (something that is
\* not white space) or "blank" (white space only); fetch_dir keeps no file
\* with empty content.
FileUniverse ==
    << [path |-> <<"a", ".py">>, content |-> "text"],
       [path |-> <<"docs", "/", "b", ".md">>, content |-> "text"],
       [path |-> <<"c", ".txt">>, content |-> "text"],
       [path |-> <<"d", ".py">>, content |-> "blank"],
       [path |-> <<"e", ".js">>, content |-> "text"] >>

\* The sequence q restricted to the indices in S, in order.
RECURSIVE Pick(_, _, _)
Pick(q, S, i) ==
    IF i > Len(q) THEN <<>>
    ELSE (IF i \in S THEN <<q[i]>> ELSE <<>>) \o Pick(q, S, i + 1)

\* What fetch_files may return: a mapping from path to file, in insertion
\* order.
FetchedMappings == {Pick(FileUniverse, S, 1) : S \in SUBSET DOMAIN FileUniverse}

\* content.strip()
Strip(data) == IF data = "blank" THEN "" ELSE data

\* any(p.endswith(ext) for ext in TEXT_EXTENSIONS) and
\* data.get("content", "").strip()
PassesFilterExtensionOnly(f) ==
    f.path[Len(f.path)] \in TEXT_EXTENSIONS
PassesFilter(f) ==
    /\ f.path[Len(f.path)] \in TEXT_EXTENSIONS
    /\ Strip(f.content) # ""

\* The files that pass the filter, in the order of the mapping: a dict
\* comprehension keeps the insertion order.
FilesToProcessLastFirst(files) ==
    LET kept == SelectSeq(files, PassesFilter) IN
    [i \in DOMAIN kept |-> kept[Len(kept) + 1 - i]]
FilesToProcess(files) == SelectSeq(files, PassesFilter)

\* Whether a call of summarize_file with nargs positional arguments binds to
\* its parameters; if not, the call raises TypeError before the coroutine
\* exists.
Binds(nargs) == nargs = SummarizeFileParams

\* What the caller of summarize_file holds for one file: None, the staging
\* location, or nothing yet while the coroutine runs.
NoneResult == [kind |-> "None", loc |-> <<>>]
Awaited == [kind |-> "awaited", loc |-> <<>>]
IsPath(r) == r.kind # "None"

\* Every staging location of the model.
AllLocs ==
    {AggLoc(i) : i \in 1..MaxPaths}
    \cup {StagingLocation(FileUniverse[i].path) : i \in DOMAIN FileUniverse}

-----------------------------------------------------------------------------
(* summarize_project, and what its callers do with what it returns.        *)

Min(a, b) == IF a < b THEN a ELSE b
Range(q) == {q[i] : i \in DOMAIN q}

\* for i in range(0, len(summary_paths), BATCH_SIZE):
\*     batch_paths = summary_paths[i:i + BATCH_SIZE]
BatchesOf(paths) ==
    [b \in 1..((Len(paths) + BATCH_SIZE - 1) \div BATCH_SIZE) |->
        SubSeq(paths, (b - 1) * BATCH_SIZE + 1,
               Min(b * BATCH_SIZE, Len(paths)))]

\* The staging directory after the report write returned: on success every
\* path is removed, but for the paths whose os.remove raises.
StoreAfterWriteCleansAlways(st, paths, ok, failing) ==
    st \ (Range(paths) \ failing)
StoreAfterWrite(st, paths, ok, failing) ==
    IF ok THEN st \ (Range(paths) \ failing) ELSE st

\* asyncio.gather(*tasks): the results in the order of the tasks, whatever
\* the order the tasks completed in.  A result is the text that answers the
\* prompt of its task.
GatherAsCompleted(tasks, completed) ==
    [i \in DOMAIN tasks |->
        [task |-> completed[i], text |-> tasks[completed[i]].result]]
Gather(tasks, completed) ==
    [i \in DOMAIN tasks |-> [task |-> i, text |-> tasks[i].result]]

\* The order the batch tasks completed in, from the order the calls of
\* summarize_project returned in (the overview call is the first of them).
TaskOrder(order) == [i \in 1..(Len(order) - 1) |-> order[i + 1] - 1]

\* The overview section of the report: what summarize_project_batch_async
\* returned, or the placeholder of the except clause if it raised.
OverviewSection(result) ==
    IF result = "raised" THEN "OverviewPlaceholder" ELSE result

\* What summarize_project returns after the report write.
WriteResult(ok) == IF ok THEN "ReportFilename" ELSE "WriteErrorText"

Event(type, arg, path) == [type |-> type, arg |-> arg, path |-> path]
Emit(st, e) == [st EXCEPT !.events = Append(@, e)]

\* analyze_repo after await summarize_project(...): whatever string came back
\* is the project_summary_file of the response.
BatchResumed(b, a, result) ==
    [b EXCEPT !.pc = "done",
              !.response = [status |-> 200, detail |-> "none",
                            files_analyzed |-> Len(a.paths),
                            project_summary_file |-> result]]

\* summarize_files_stream after await summarize_project(...): the
\* project_summary_file event, then the Completed status.
StreamResumed(st, result) ==
    [Emit(Emit(st, Event("project_summary_file", result, <<>>)),
          Event("status", "Completed", <<>>))
     EXCEPT !.pc = "done"]

\* summarize_project returns result to the coroutine that awaits it: the
\* new values of agg, batch and stream.
AggReturned(a, result, b, st) ==
    [agg |-> [a EXCEPT !.pc = "done", !.result = result],
     batch |-> IF a.caller = "batch" THEN BatchResumed(b, a, result) ELSE b,
     stream |-> IF a.caller = "stream" THEN StreamResumed(st, result) ELSE st]

\* summarize_project(summary_paths, ...) up to its first model call: without
\* a model it returns an error text at once, else the overview call starts.
AggEntered(paths, caller, b, st) ==
    LET a == [IdleAgg EXCEPT !.caller = caller, !.paths = paths] IN
    IF ~models THEN AggReturned(a, "ModelNotInitText", b, st)
    ELSE [agg |-> [a EXCEPT !.pc = "overview", !.calls = <<NewCall("batch")>>],
          batch |-> b, stream |-> st]

\* The three coroutines become what r says.
Become(r) ==
    /\ agg' = r.agg
    /\ batch' = r.batch
    /\ stream' = r.stream

-----------------------------------------------------------------------------
(* analyze_repo.                                                           *)

HTTPException(b, status, detail) ==
    [b EXCEPT !.pc = "done",
              !.response = [status |-> status, detail |-> detail,
                            files_analyzed |-> 0,
                            project_summary_file |-> "none"]]

\* summarize_path(path, file_data): the TypeError of a call that does not
\* bind is caught and None is returned; a call that binds awaits
\* summarize_file.
summarize_path(f) == IF Binds(BatchCallArgs) THEN Awaited ELSE NoneResult

\* if not files_to_process
NothingToProcess(files, todo) == todo = <<>>

\* analyze_repo once asyncio.gather has every task's result: the None
\* results are dropped; with nothing left the request fails, else
\* summarize_project is called with the staging locations left.
BatchGathered(b) ==
    LET valid == SelectSeq(b.summary_paths, IsPath) IN
    IF valid = <<>>
    THEN [agg |-> agg, stream |-> stream,
          batch |-> HTTPException(b, 500, "AllSummariesFailed")]
    ELSE AggEntered([i \in DOMAIN valid |-> valid[i].loc], "batch",
                    [b EXCEPT !.pc = "aggregate"], stream)

\* GET /analyze_repo: the URL check, then the fetch in a worker thread.
BatchRequest ==
    /\ trigger = "analyze_repo"
    /\ batch.pc = "idle"
    /\ \E url_ok \in BOOLEAN :
           batch' = IF url_ok THEN [batch EXCEPT !.pc = "fetch"]
                    ELSE HTTPException(batch, 400, "InvalidURL")
    /\ UNCHANGED <<unitVars, sem, aclient, models, gateVars, callVars,
                   trigger, store,
                   store0, agg, stream, disconnected, stagingLog>>

\* fetch_files returns or raises; the empty mapping and the empty filter
\* result end the request.
BatchFetchReturns ==
    /\ batch.pc = "fetch"
    /\ \E raised \in BOOLEAN, files \in FetchedMappings :
           batch' = IF raised THEN HTTPException(batch, 500, "FetchError")
                    ELSE IF files = <<>>
                    THEN HTTPException(batch, 404, "NoReadableFiles")
                    ELSE IF NothingToProcess(files, FilesToProcess(files))
                    THEN HTTPException([batch EXCEPT !.files = files],
                                       404, "NoTextFiles")
                    ELSE [batch EXCEPT !.pc = "gather", !.files = files,
                                       !.todo = FilesToProcess(files)]
    /\ UNCHANGED <<unitVars, sem, aclient, models, gateVars, callVars,
                   trigger, store,
                   store0, agg, stream, disconnected, stagingLog>>

\* asyncio.gather over summarize_path of every file to process.  A task
\* whose summarize_file call does not bind ends at once with None, and with
\* every task ended analyze_repo goes on; a task whose call binds awaits
\* summarize_file, and analyze_repo waits for it.
BatchGather ==
    /\ batch.pc = "gather"
    /\ LET results == [i \in DOMAIN batch.todo |-> summarize_path(batch.todo[i])]
           b == [batch EXCEPT !.summary_paths = results]
       IN IF \E i \in DOMAIN results : results[i] = Awaited
          THEN /\ batch' = [b EXCEPT !.pc = "summarizing"]
               /\ UNCHANGED <<agg, stream>>
          ELSE Become(BatchGathered(b))
    /\ UNCHANGED <<unitVars, sem, aclient, models, gateVars, callVars,
                   trigger, store,
                   store0, disconnected, stagingLog>>

-----------------------------------------------------------------------------
(* summarize_files_stream.  events is what the generator has yielded.      *)

StreamEnded(st, text) ==
    [Emit(st, Event("error", text, <<>>)) EXCEPT !.pc = "done"]

\* if await request.is_disconnected(): return.  The generator ends; the
\* staging directory is as it was.
DisconnectedCleansUp(st, dir) ==
    [stream |-> [st EXCEPT !.pc = "done", !.cancelled = TRUE],
     store |-> dir \ {StagingLocation(st.todo[i].path) : i \in 1..(st.idx - 1)}]
Disconnected(st, dir) ==
    [stream |-> [st EXCEPT !.pc = "done", !.cancelled = TRUE],
     store |-> dir]

\* The lines after the for loop, up to the call of summarize_project.
StreamAfterLoop(st) ==
    IF st.file_summary_paths = <<>>
    THEN [agg |-> agg, batch |-> batch,
          stream |-> StreamEnded(st, "NoFilesSummarized")]
    ELSE AggEntered(st.file_summary_paths, "stream", batch,
                    [Emit(st, Event("status", "GeneratingFinal", <<>>))
                     EXCEPT !.pc = "aggregate"])

\* GET /analyze_repo_stream: the URL check, the Fetching status, then the
\* fetch in a worker thread.
StreamRequest ==
    /\ trigger = "analyze_repo_stream"
    /\ stream.pc = "idle"
    /\ \E url_ok \in BOOLEAN :
           stream' = IF url_ok
                     THEN [Emit(stream, Event("status", "Fetching", <<>>))
                           EXCEPT !.pc = "fetch"]
                     ELSE StreamEnded(stream, "InvalidURL")
    /\ UNCHANGED <<unitVars, sem, aclient, models, gateVars, callVars,
                   trigger, store,
                   store0, agg, batch, disconnected, stagingLog>>

StreamFetchReturns ==
    /\ stream.pc = "fetch"
    /\ \E raised \in BOOLEAN, files \in FetchedMappings :
           stream' = IF raised THEN StreamEnded(stream, "FetchError")
                     ELSE IF files = <<>>
                     THEN StreamEnded(stream, "NoReadableFiles")
                     ELSE IF NothingToProcess(files, FilesToProcess(files))
                     THEN StreamEnded([stream EXCEPT !.files = files],
                                      "NoTextFiles")
                     ELSE [Emit(stream, Event("status", "Fetched", <<>>))
                           EXCEPT !.pc = "check", !.files = files,
                                  !.todo = FilesToProcess(files), !.idx = 1]
    /\ UNCHANGED <<unitVars, sem, aclient, models, gateVars, callVars,
                   trigger, store,
                   store0, agg, batch, disconnected, stagingLog>>

\* The head of the for loop: after the last file the lines after the loop
\* run; before a file the disconnect check, then the Summarizing status.
StreamCheck ==
    /\ stream.pc = "check"
    /\ IF stream.idx > Len(stream.todo)
       THEN /\ Become(StreamAfterLoop(stream))
            /\ UNCHANGED store
       ELSE IF disconnected
       THEN /\ stream' = Disconnected(stream, store).stream
            /\ store' = Disconnected(stream, store).store
            /\ UNCHANGED <<agg, batch>>
       ELSE /\ stream' = [Emit(stream, Event("status", "Summarizing",
                                             stream.todo[stream.idx].path))
                          EXCEPT !.pc = "summarize"]
            /\ UNCHANGED <<agg, batch, store>>
    /\ UNCHANGED <<unitVars, sem, aclient, models, gateVars, callVars,
                   trigger, store0,
                   disconnected, stagingLog>>

\* summary_path = await summarize_file(path, content, sha): a call that does
\* not bind raises TypeError, the except clause yields the error event and
\* the loop goes on with the next file; a call that binds awaits
\* summarize_file.
StreamSummarize ==
    /\ stream.pc = "summarize"
    /\ stream' = IF Binds(StreamCallArgs)
                 THEN [stream EXCEPT !.pc = "summarizing"]
                 ELSE [Emit(stream, Event("error", "ErrorSummarizing",
                                          stream.todo[stream.idx].path))
                       EXCEPT !.pc = "check", !.idx = @ + 1]
    /\ UNCHANGED <<unitVars, sem, aclient, models, gateVars, callVars,
                   trigger, store,
                   store0, agg, batch, disconnected, stagingLog>>

\* The client goes away while the stream is open.
ClientDisconnects ==
    /\ stream.pc \notin {"idle", "done"}
    /\ ~disconnected
    /\ disconnected' = TRUE
    /\ UNCHANGED <<unitVars, sem, aclient, models, gateVars, callVars,
                   trigger, store,
                   store0, agg, batch, stream, stagingLog>>

-----------------------------------------------------------------------------
(* SpecMain: one run, come in by analyze_repo, by analyze_repo_stream or   *)
(* by a direct call of summarize_project, over a staging directory that    *)
(* holds staged summaries.                                                 *)

MainInit ==
    /\ sem = GEMINI_CONCURRENCY_LIMIT
    /\ aclient \in BOOLEAN
    /\ models \in BOOLEAN
    /\ gate = EmptyBag
    /\ returned = 0
    /\ CallIdle
    /\ trigger \in {"summarize_project", "analyze_repo", "analyze_repo_stream"}
    /\ \E missing \in SUBSET AllLocs :
           /\ Cardinality(missing) <= MaxFaults
           /\ store = AllLocs \ missing
    /\ store0 = store
    /\ agg = IdleAgg
    /\ batch = IdleBatch
    /\ stream = IdleStream
    /\ disconnected = FALSE
    /\ stagingLog = <<>>
    /\ UnitIdle

\* summarize_project called directly with the first n staging locations.
AggCall ==
    /\ trigger = "summarize_project"
    /\ agg.pc = "idle"
    /\ \E n \in 0..MaxPaths :
           Become(AggEntered([i \in 1..n |-> AggLoc(i)], "direct", batch, stream))
    /\ UNCHANGED <<unitVars, sem, aclient, models, gateVars, callVars,
                   trigger, store,
                   store0, disconnected, stagingLog>>

\* The gated call k of summarize_project (1: the overview, then the batches)
\* moves to state b; order keeps the calls in the order they returned.
AggCallMove(k, b) ==
    /\ sem' = SemAfter(sem, agg.calls[k], b)
    /\ agg' = [agg EXCEPT !.calls[k] = b,
                          !.order = IF b.pc = "done" THEN Append(@, k) ELSE @]
    /\ UNCHANGED <<unitVars, aclient, models, gateVars, callVars,
                   trigger, store, store0,
                   batch, stream, disconnected, stagingLog>>

AggAcquire ==
    \E k \in DOMAIN agg.calls :
        /\ agg.calls[k].pc = "wait"
        /\ CanAcquire(sem)
        /\ AggCallMove(k, Entered(agg.calls[k]))

AggPrimaryReturns ==
    \E k \in DOMAIN agg.calls, outcome \in PrimaryOutcomes :
        /\ agg.calls[k].pc = "primary"
        /\ AggCallMove(k, PrimaryReturns(agg.calls[k], outcome))

AggOpenAIReturns ==
    \E k \in DOMAIN agg.calls, outcome \in OpenAIOutcomes :
        /\ agg.calls[k].pc = "openai"
        /\ AggCallMove(k, OpenAIReturns(agg.calls[k], outcome))

\* The overview call has returned and the batch files are read: one
\* summarize_project_batch_async per batch is handed to asyncio.gather.
AggBatchesRead ==
    /\ agg.pc = "overview"
    /\ agg.calls[1].pc = "done"
    /\ agg' = [agg EXCEPT
                   !.pc = "batches",
                   !.overview = OverviewSection(agg.calls[1].result),
                   !.batches = BatchesOf(agg.paths),
                   !.calls = @ \o [b \in DOMAIN BatchesOf(agg.paths) |->
                                       NewCall("batch")]]
    /\ UNCHANGED <<unitVars, sem, aclient, models, gateVars, callVars,
                   trigger, store,
                   store0, batch, stream, disconnected, stagingLog>>

\* asyncio.gather returns the batch results in the order of the tasks; the
\* report write starts.
AggGathered ==
    /\ agg.pc = "batches"
    /\ \A k \in DOMAIN agg.calls : agg.calls[k].pc = "done"
    /\ agg' = [agg EXCEPT
                   !.pc = "write",
                   !.body = Gather(Tail(agg.calls), TaskOrder(agg.order))]
    /\ UNCHANGED <<unitVars, sem, aclient, models, gateVars, callVars,
                   trigger, store,
                   store0, batch, stream, disconnected, stagingLog>>

\* The report write returns or raises; after a write that returned, the
\* cleanup loop removes the staged files (an os.remove that raises is logged
\* and skipped).
AggWriteReturns ==
    /\ agg.pc = "write"
    /\ \E ok \in BOOLEAN, failing \in SUBSET (Range(agg.paths) \cap store) :
           /\ Cardinality(failing) <= MaxFaults
           /\ ~ok => failing = {}
           /\ store' = StoreAfterWrite(store, agg.paths, ok, failing)
           /\ Become(AggReturned(
                  [agg EXCEPT !.writeOk = IF ok THEN "ok" ELSE "failed",
                              !.removeFailed = failing],
                  WriteResult(ok), batch, stream))
    /\ UNCHANGED <<unitVars, sem, aclient, models, gateVars, callVars,
                   trigger, store0,
                   disconnected, stagingLog>>

MainNext ==
    \/ AggCall
    \/ AggAcquire
    \/ AggPrimaryReturns
    \/ AggOpenAIReturns
    \/ AggBatchesRead
    \/ AggGathered
    \/ AggWriteReturns
    \/ BatchRequest
    \/ BatchFetchReturns
    \/ BatchGather
    \/ StreamRequest
    \/ StreamFetchReturns
    \/ StreamCheck
    \/ StreamSummarize
    \/ ClientDisconnects

SpecMain == MainInit /\ [][MainNext]_vars

\* C4 (the claim as stated): once summarize_project has returned, the staged
\* artifacts it was handed are gone if and only if the report write succeeded.
C4_DeletedIffWritten ==
    (agg.pc = "done" /\ Range(agg.paths) \cap store0 # {})
        => ((Range(agg.paths) \cap store = {}) <=> agg.writeOk = "ok")

\* C4 (amended): no staged artifact is removed before the report write has
\* returned; after a write that failed every staged artifact is still there
\* and the error text is returned; after a write that succeeded exactly the
\* artifacts handed to summarize_project are removed, but for those whose own
\* os.remove failed, and the report's name is returned.
C4_CleanupOnlyAfterWrite ==
    /\ agg.pc # "done" => store = store0
    /\ (agg.pc = "done" /\ agg.writeOk = "none")
           => store = store0 /\ agg.result = "ModelNotInitText"
    /\ (agg.pc = "done" /\ agg.writeOk = "failed")
           => store = store0 /\ agg.result = "WriteErrorText"
    /\ (agg.pc = "done" /\ agg.writeOk = "ok")
           => /\ store = store0 \ (Range(agg.paths) \ agg.removeFailed)
              /\ agg.result = "ReportFilename"

\* A report write failed with staged artifacts at hand.
C4_Witness ==
    /\ agg.pc = "done"
    /\ agg.writeOk = "failed"
    /\ Len(agg.paths) > BATCH_SIZE
    /\ Range(agg.paths) \cap store # {}

\* A report write succeeded and one os.remove of the cleanup failed.
C4_WitnessBestEffort ==
    /\ agg.pc = "done"
    /\ agg.writeOk = "ok"
    /\ agg.removeFailed # {}
    /\ store # store0

-----------------------------------------------------------------------------
(* Claims about analyze_repo and summarize_files_stream.                   *)

\* The events of the stream st that e satisfies.
EventsOf(st, type) ==
    SelectSeq(st.events, LAMBDA e : e.type = type)
StatusEvents(st, arg) ==
    SelectSeq(st.events, LAMBDA e : e.type = "status" /\ e.arg = arg)

\* The model calls (primary and fallback) summarize_project has issued.
RECURSIVE CallsIssued(_)
CallsIssued(q) ==
    IF q = <<>> THEN 0
    ELSE Head(q).primaryCalls + Head(q).fallbackCalls + Head(q).openaiCalls
         + CallsIssued(Tail(q))

\* C6 (the claim as stated): analyze_repo fails with "All file summaries
\* failed." only if the staging write of every file that passed the filter
\* was tried and failed.
C6_AllFailedOnlyOnStagingFailures ==
    (batch.pc = "done" /\ batch.response.detail = "AllSummariesFailed")
        => \A i \in DOMAIN batch.todo :
               \E j \in DOMAIN stagingLog :
                   /\ stagingLog[j].path = batch.todo[i].path
                   /\ ~stagingLog[j].ok

\* C8 (the claim as stated): a stream that ended on the disconnect check
\* before file k + 1 has yielded exactly k file_summary events, has started
\* nothing for the files after k, and has yielded neither an aggregation
\* event nor Completed.
C8_DisconnectAfterK ==
    stream.cancelled
        => /\ Len(EventsOf(stream, "file_summary")) = stream.idx - 1
           /\ Len(StatusEvents(stream, "Summarizing")) = stream.idx - 1
           /\ EventsOf(stream, "project_summary_file") = <<>>
           /\ StatusEvents(stream, "GeneratingFinal") = <<>>
           /\ StatusEvents(stream, "Completed") = <<>>

\* C9: when the stream ends on the disconnect check, the staging directory
\* is what it was when the request came in (nothing was deleted) and
\* summarize_project has not been called.
C9_CancellationLeavesStaging ==
    stream.cancelled
        => /\ store = store0
           /\ agg = IdleAgg
           /\ EventsOf(stream, "project_summary_file") = <<>>
           /\ StatusEvents(stream, "GeneratingFinal") = <<>>

\* The stream ended on the disconnect check after two files, with an
\* artifact at the staging location of each of them.
C9_Witness ==
    /\ stream.cancelled
    /\ stream.idx = 3
    /\ \A i \in 1..2 : StagingLocation(stream.todo[i].path) \in store

\* No file of the mapping has both an allowed extension and content that is
\* not blank.
NoneQualifies(files) ==
    \A i \in DOMAIN files :
        \/ \A ext \in TEXT_EXTENSIONS : files[i].path[Len(files[i].path)] # ext
        \/ files[i].content = "blank"

\* C10: when analyze_repo has fetched a mapping none of whose files passes
\* the filter, the request has ended with the 404 of an empty mapping or of
\* an empty filter result, summarize_project has not been called and no model
\* call has been issued; and a model call is issued only in a run with files
\* that passed the filter.
C10_FilterEmptyNoModelCalls ==
    trigger = "analyze_repo" =>
        /\ ( /\ batch.pc \notin {"idle", "fetch"}
             /\ ~( /\ batch.pc = "done"
                   /\ batch.response.detail \in {"InvalidURL", "FetchError"})
             /\ NoneQualifies(batch.files) )
               => /\ batch.pc = "done"
                  /\ batch.response.status = 404
                  /\ batch.response.detail \in {"NoReadableFiles", "NoTextFiles"}
                  /\ agg = IdleAgg
                  /\ sem = GEMINI_CONCURRENCY_LIMIT
        /\ CallsIssued(agg.calls) > 0
               => /\ batch.todo # <<>>
                  /\ \A i \in DOMAIN batch.todo :
                         ~NoneQualifies(<<batch.todo[i]>>)

\* The request ended on the empty filter result, with a file of a foreign
\* extension and a blank file of an allowed extension in the mapping.
C10_Witness ==
    /\ batch.pc = "done"
    /\ batch.response.detail = "NoTextFiles"
    /\ \E i \in DOMAIN batch.files : batch.files[i].content = "blank"
    /\ \E i \in DOMAIN batch.files :
           batch.files[i].path[Len(batch.files[i].path)] \notin TEXT_EXTENSIONS

-----------------------------------------------------------------------------
(* Claims about the batches and the overview of summarize_project.         *)

RECURSIVE Concat(_)
Concat(qs) == IF qs = <<>> THEN <<>> ELSE Head(qs) \o Concat(Tail(qs))

\* summarize_project has built its batches.
Batched ==
    \/ agg.pc \in {"batches", "write"}
    \/ agg.pc = "done" /\ agg.writeOk # "none"

\* C19: the batches of summarize_project are consecutive slices of the list
\* of staging locations, of 1 to BATCH_SIZE locations each, that put end to
\* end give the list back; there is one gated call per batch, which issues
\* one primary model call; and the report body holds the batch results in the
\* order of the batches, whatever the order the calls returned in.
C19_BatchesInOrder ==
    Batched =>
        /\ Concat(agg.batches) = agg.paths
        /\ \A b \in DOMAIN agg.batches : Len(agg.batches[b]) \in 1..BATCH_SIZE
        /\ Len(agg.calls) = 1 + Len(agg.batches)
        /\ \A b \in DOMAIN agg.batches :
               /\ agg.calls[b + 1].kind = "batch"
               /\ agg.calls[b + 1].pc = "done" => agg.calls[b + 1].primaryCalls = 1
        /\ agg.pc # "batches" =>
               /\ Len(agg.body) = Len(agg.batches)
               /\ \A b \in DOMAIN agg.body :
                      /\ agg.body[b].task = b
                      /\ agg.body[b].text = agg.calls[b + 1].result

\* The report was written from two batches whose calls returned in the
\* reverse of the batch order.
C19_Witness ==
    /\ agg.pc = "done"
    /\ agg.writeOk = "ok"
    /\ Len(agg.batches) = 2
    /\ agg.order = <<1, 3, 2>>

\* The calls of two batches are in their provider calls at the same time.
C19_WitnessConcurrent ==
    /\ agg.pc = "batches"
    /\ Len(agg.batches) = 2
    /\ agg.calls[2].pc = "primary"
    /\ agg.calls[3].pc = "primary"

\* C20 (the claim as stated): when the overview call has failed (a provider
\* error, or a rate limit whose fallback failed), the overview section of the
\* report is the placeholder text.
C20_OverviewPlaceholder ==
    ( /\ Batched
      /\ agg.calls[1].result \in {"BatchErrorText", "OpenAIErrorMarker",
                                  "OpenAINoKeyMarker"} )
        => agg.overview = "OverviewPlaceholder"

\* After a failed overview call the run goes on to the batches and the
\* report write.
C20_RunGoesOn ==
    /\ agg.pc = "done"
    /\ agg.writeOk = "ok"
    /\ agg.calls[1].result = "BatchErrorText"
    /\ Len(agg.batches) = 2

-----------------------------------------------------------------------------
(* Claims about the error events of summarize_files_stream.                *)

\* An error event of the run (it names no file) or of one file.
IsRunError(e) == e.type = "error" /\ e.path = <<>>
IsFileError(e) == e.type = "error" /\ e.path # <<>>

\* C11 (the part a stream reaches): an error event of the run (fetch
\* failure, no readable files, no text files, no file summarized) is the last
\* event of the stream, which has ended with no project_summary_file and no
\* Completed event; after an error event of one file the loop is at the
\* disconnect check of the next file.
C11_FatalErrorsEndStream ==
    /\ \A i \in DOMAIN stream.events :
           IsRunError(stream.events[i])
               => /\ i = Len(stream.events)
                  /\ stream.pc = "done"
                  /\ EventsOf(stream, "project_summary_file") = <<>>
                  /\ StatusEvents(stream, "Completed") = <<>>
    /\ ( /\ stream.events # <<>>
         /\ IsFileError(stream.events[Len(stream.events)]) )
           => \/ /\ stream.pc = "check"
                 /\ stream.idx > 1
                 /\ stream.todo[stream.idx - 1].path
                        = stream.events[Len(stream.events)].path
              \/ stream.cancelled

\* The stream ended on "No files were successfully summarized.".
C11_WitnessNoSummaries ==
    /\ stream.pc = "done"
    /\ stream.events # <<>>
    /\ stream.events[Len(stream.events)].arg = "NoFilesSummarized"

\* After the error event of one file the next file was taken up.
C11_WitnessPerFile ==
    \E i \in DOMAIN stream.events :
        /\ IsFileError(stream.events[i])
        /\ i + 1 \in DOMAIN stream.events
        /\ stream.events[i + 1].type = "status"
        /\ stream.events[i + 1].arg = "Summarizing"

-----------------------------------------------------------------------------
(* chunk_content: textwrap.wrap(content, width=chunk_size,                 *)
(* break_long_words=False, replace_whitespace=False), with the defaults    *)
(* drop_whitespace=True and break_on_hyphens=True.  TextWrapper splits the *)
(* text into pieces, each a maximal run of white space or a word, and      *)
(* fills lines with whole pieces; it looks only at the length of a piece   *)
(* and at whether it is white space, and a content is written here as the  *)
(* sequence of its pieces (a content without hyphens and tabs).            *)

PieceLens ==
    (1..MaxPieceLen) \cup {CHUNK_SIZE - 1, CHUNK_SIZE, CHUNK_SIZE + 1}
Pieces == [ws : BOOLEAN, len : PieceLens]

\* The contents: words and runs of white space alternate.
Contents ==
    {q \in UNION {[1..n -> Pieces] : n \in 0..MaxPieces} :
        \A i \in 1..(Len(q) - 1) : q[i].ws # q[i + 1].ws}

\* width must be > 0, or wrap raises ValueError.
ChunkSizes == (1..MaxChunkSize) \cup {CHUNK_SIZE}

\* while chunks: l = len(chunks[-1]); if cur_len + l <= width: take it;
\* else: break.  The number of pieces taken.
RECURSIVE Fits(_, _, _)
Fits(pieces, cur_len, width) ==
    IF pieces # <<>> /\ cur_len + Head(pieces).len <= width
    THEN 1 + Fits(Tail(pieces), cur_len + Head(pieces).len, width)
    ELSE 0

\* TextWrapper._wrap_chunks: started says that a line has been made.  White
\* space at the start of a line after the first is dropped; a piece longer
\* than the width is put whole on a line of its own; white space at the end
\* of a line is dropped; an empty line is not kept.
RECURSIVE wrap_chunks(_, _, _)
wrap_chunks(pieces, width, started) ==
    IF pieces = <<>> THEN <<>>
    ELSE LET kept == IF started /\ Head(pieces).ws THEN Tail(pieces)
                     ELSE pieces
             n == Fits(kept, 0, width)
             rest == SubSeq(kept, n + 1, Len(kept))
             long == rest # <<>> /\ Head(rest).len > width /\ n = 0
             cur_line == IF long THEN <<Head(rest)>> ELSE SubSeq(kept, 1, n)
             left == IF long THEN Tail(rest) ELSE rest
             line == IF cur_line # <<>> /\ cur_line[Len(cur_line)].ws
                     THEN SubSeq(cur_line, 1, Len(cur_line) - 1)
                     ELSE cur_line
         IN IF line # <<>>
            THEN <<line>> \o wrap_chunks(left, width, TRUE)
            ELSE wrap_chunks(left, width, started)

chunk_content(text, size) == wrap_chunks(text, size, FALSE)

-----------------------------------------------------------------------------
(* SpecChunk: chunk_content applied to one content with one chunk size.    *)

ChunkInit ==
    /\ sem = GEMINI_CONCURRENCY_LIMIT
    /\ aclient = TRUE
    /\ models = TRUE
    /\ gate = EmptyBag
    /\ returned = 0
    /\ CallIdle
    /\ MainIdle
    /\ RunsIdle
    /\ FetchIdle
    /\ ReportsIdle
    /\ content \in Contents
    /\ chunk_size \in ChunkSizes
    /\ chunks = [pc |-> "idle", lines |-> <<>>]

ChunkContent ==
    /\ chunks.pc = "idle"
    /\ chunks' = [pc |-> "done", lines |-> chunk_content(content, chunk_size)]
    /\ UNCHANGED <<sem, aclient, models, gateVars, callVars, mainVars,
                   content, chunk_size, runVars, fetchVars, reportVars>>

ChunkNext == ChunkContent

SpecChunk == ChunkInit /\ [][ChunkNext]_vars

\* The characters of a sequence of pieces: adjacent pieces of one kind are
\* one run.
RECURSIVE Norm(_)
Norm(q) ==
    IF Len(q) <= 1 THEN q
    ELSE LET r == Norm(Tail(q)) IN
         IF Head(q).ws = Head(r).ws
         THEN <<[ws |-> Head(q).ws, len |-> Head(q).len + Head(r).len]>>
              \o Tail(r)
         ELSE <<Head(q)>> \o r

\* C13 (the claim as stated): the chunks chunk_content returns for a content
\* that is not empty, put end to end, are the content, character for
\* character.
C13_RoundTrip ==
    (chunks.pc = "done" /\ content # <<>>)
        => Norm(Concat(chunks.lines)) = Norm(content)

\* What does hold: the chunks are the content's pieces in their order, less
\* runs of white space; no chunk is empty, none starts or ends with white
\* space but for white space at the very start of the content, and a chunk
\* longer than chunk_size is a single word.
RECURSIVE IsSubSeq(_, _)
IsSubSeq(a, b) ==
    IF a = <<>> THEN TRUE
    ELSE IF b = <<>> THEN FALSE
    ELSE IF Head(a) = Head(b) THEN IsSubSeq(Tail(a), Tail(b))
    ELSE IsSubSeq(a, Tail(b))

RECURSIVE PiecesLen(_)
PiecesLen(q) == IF q = <<>> THEN 0 ELSE Head(q).len + PiecesLen(Tail(q))

Words(q) == SelectSeq(q, LAMBDA p : ~p.ws)

C13_WordsKeptInOrder ==
    chunks.pc = "done" =>
        /\ Words(Concat(chunks.lines)) = Words(content)
        /\ IsSubSeq(Concat(chunks.lines), content)
        /\ \A i \in DOMAIN chunks.lines :
               LET line == chunks.lines[i] IN
               /\ line # <<>>
               /\ ~line[Len(line)].ws
               /\ i > 1 => ~line[1].ws
               /\ PiecesLen(line) > chunk_size => Len(line) = 1

\* Two words that do not fit one line together lose the white space between
\* them.
C13_WitnessDropped ==
    /\ chunks.pc = "done"
    /\ Len(content) = 3
    /\ ~content[1].ws
    /\ Len(chunks.lines) = 2
    /\ PiecesLen(Concat(chunks.lines)) < PiecesLen(content)

-----------------------------------------------------------------------------
(* SpecRuns: pipeline runs as a caller of summarizer.py makes them, in one *)
(* process: summarize_file for each file of the run in turn, then          *)
(* summarize_project with the staging locations that came back.  Either    *)
(* one run, of one file of up to MaxChunks chunks or of two one-chunk      *)
(* files, or two runs at the same time, of one one-chunk file each.        *)

\* n words of CHUNK_SIZE characters each, with one blank between two words:
\* chunk_content makes n chunks of it.
WordsContent(n) ==
    [i \in 1..(IF n = 0 THEN 0 ELSE 2 * n - 1) |->
        IF i % 2 = 1 THEN [ws |-> FALSE, len |-> CHUNK_SIZE]
        ELSE [ws |-> TRUE, len |-> 1]]

\* The paths of the files of the runs.
RunPaths ==
    {<<"a", "/", "b", ".py">>, <<"a", "_", "b", ".py">>, <<"c", ".py">>}
RunLocs == {StagingLocation(p) : p \in RunPaths}

\* The files of a run that is alone: one file of up to MaxChunks chunks, or
\* two files of one chunk each.
RunFiles ==
    {<<[path |-> p, content |-> WordsContent(n)]>> :
        p \in RunPaths, n \in 0..MaxChunks}
    \cup {<<[path |-> <<"a", "/", "b", ".py">>, content |-> WordsContent(1)],
            [path |-> <<"a", "_", "b", ".py">>, content |-> WordsContent(1)]>>,
          <<[path |-> <<"a", "/", "b", ".py">>, content |-> WordsContent(1)],
            [path |-> <<"c", ".py">>, content |-> WordsContent(1)]>>}

\* A file of TEMP_SUMMARY_DIR that is not there; else a file holds the
\* summary a run wrote for a path.
Absent == [run |-> 0, path |-> <<>>, summary |-> <<>>]
ReadFile(st, loc) == IF loc \in DOMAIN st THEN st[loc] ELSE Absent

NewRun(files) ==
    [pc |-> "summarize_file", files |-> files, fi |-> 1, calls |-> <<>>,
     order |-> <<>>, results |-> <<>>, paths |-> <<>>, reads |-> <<>>,
     overview |-> "none", batches |-> <<>>, body |-> <<>>,
     report |-> "none"]

\* "\n\n---\n\n".join(chunk_summaries)
Delimiter == [task |-> 0, text |-> "Delimiter"]
RECURSIVE Join(_)
Join(q) ==
    IF Len(q) <= 1 THEN q ELSE <<Head(q), Delimiter>> \o Join(Tail(q))

\* The caller has the result of summarize_file for its file fi, and goes on
\* to the next file or, after the last, to summarize_project.  order keeps
\* the order the calls returned in until the next calls are made.
FileReturned(run, result) ==
    [run EXCEPT !.results = Append(@, result),
                !.calls = <<>>,
                !.fi = @ + 1,
                !.pc = IF run.fi = Len(run.files) THEN "summarize_project"
                       ELSE "summarize_file"]

RunsInitOneRun ==
    /\ aclient \in BOOLEAN
    /\ models \in BOOLEAN
    /\ \E files \in RunFiles : runs = <<NewRun(files)>>

RunsInitTwoRuns ==
    /\ aclient = TRUE
    /\ models = TRUE
    /\ \E p1 \in RunPaths, p2 \in RunPaths :
           runs = <<NewRun(<<[path |-> p1, content |-> WordsContent(1)]>>),
                    NewRun(<<[path |-> p2, content |-> WordsContent(1)]>>)>>

RunsInit ==
    /\ sem = GEMINI_CONCURRENCY_LIMIT
    /\ gate = EmptyBag
    /\ returned = 0
    /\ CallIdle
    /\ MainIdle
    /\ ChunkIdle
    /\ FetchIdle
    /\ ReportsIdle
    /\ RunsInitOneRun \/ RunsInitTwoRuns
    /\ staging = [loc \in RunLocs |-> Absent]

\* summarize_file(path, content) up to asyncio.gather: without a model the
\* error text is returned (and the caller takes it for a path); else one
\* summarize_file_chunk_async per chunk is handed to asyncio.gather.
RunSummarizeFile(r) ==
    /\ runs[r].pc = "summarize_file"
    /\ runs' = [runs EXCEPT ![r] =
           IF ~models
           THEN FileReturned(@, [kind |-> "text", loc |-> <<"ModelNotInitText">>])
           ELSE [@ EXCEPT
                    !.pc = "chunks",
                    !.order = <<>>,
                    !.calls = [i \in DOMAIN chunk_content(
                                         runs[r].files[runs[r].fi].content,
                                         CHUNK_SIZE) |-> NewCall("chunk")]]]
    /\ UNCHANGED <<sem, aclient, models, gateVars, callVars, mainVars,
                   chunkVars, staging, fetchVars, reportVars>>

\* The gated call k of run r moves to state b.
RunCallMove(r, k, b) ==
    /\ sem' = SemAfter(sem, runs[r].calls[k], b)
    /\ runs' = [runs EXCEPT
                   ![r].calls[k] = b,
                   ![r].order = IF b.pc = "done" THEN Append(@, k) ELSE @]
    /\ UNCHANGED <<aclient, models, gateVars, callVars, mainVars, chunkVars,
                   staging, fetchVars, reportVars>>

RunAcquire(r) ==
    \E k \in DOMAIN runs[r].calls :
        /\ runs[r].calls[k].pc = "wait"
        /\ CanAcquire(sem)
        /\ RunCallMove(r, k, Entered(runs[r].calls[k]))

RunPrimaryReturns(r) ==
    \E k \in DOMAIN runs[r].calls, outcome \in PrimaryOutcomes :
        /\ runs[r].calls[k].pc = "primary"
        /\ RunCallMove(r, k, PrimaryReturns(runs[r].calls[k], outcome))

RunSleepReturns(r) ==
    \E k \in DOMAIN runs[r].calls :
        /\ runs[r].calls[k].pc = "sleep"
        /\ RunCallMove(r, k, SleepReturns(runs[r].calls[k]))

RunOpenAIReturns(r) ==
    \E k \in DOMAIN runs[r].calls, outcome \in OpenAIOutcomes :
        /\ runs[r].calls[k].pc = "openai"
        /\ RunCallMove(r, k, OpenAIReturns(runs[r].calls[k], outcome))

\* asyncio.gather has returned the chunk summaries: they are joined and
\* written to the staging location of the path; summarize_file returns the
\* location, or None if the write raised.
RunStage(r) ==
    /\ runs[r].pc = "chunks"
    /\ \A k \in DOMAIN runs[r].calls : runs[r].calls[k].pc = "done"
    /\ LET path == runs[r].files[runs[r].fi].path
           temp_filepath == StagingLocation(path)
           full_summary_content == Join(Gather(runs[r].calls, runs[r].order))
       IN \E ok \in BOOLEAN :
           /\ staging' = IF ok
                         THEN [staging EXCEPT ![temp_filepath] =
                                  [run |-> r, path |-> path,
                                   summary |-> full_summary_content]]
                         ELSE staging
           /\ runs' = [runs EXCEPT ![r] =
                  FileReturned(@, IF ok
                                  THEN [kind |-> "path", loc |-> temp_filepath]
                                  ELSE NoneResult)]
    /\ UNCHANGED <<sem, aclient, models, gateVars, callVars, mainVars,
                   chunkVars, fetchVars, reportVars>>

\* What run r sees when it reads the files at locs.
ReadAll(r, locs) ==
    [i \in DOMAIN locs |-> [loc |-> locs[i], saw |-> ReadFile(staging, locs[i])]]

\* The caller drops the None results and, with a result left, calls
\* summarize_project, which without a model returns the error text, and else
\* reads the first three files and starts the overview call.
RunSummarizeProject(r) ==
    /\ runs[r].pc = "summarize_project"
    /\ LET valid == SelectSeq(runs[r].results, IsPath)
           paths == [i \in DOMAIN valid |-> valid[i].loc]
       IN runs' = [runs EXCEPT ![r] =
              IF paths = <<>> THEN [@ EXCEPT !.pc = "done"]
              ELSE IF ~models
              THEN [@ EXCEPT !.pc = "done", !.paths = paths,
                             !.report = "ModelNotInitText"]
              ELSE [@ EXCEPT !.pc = "overview", !.paths = paths,
                             !.reads = ReadAll(r, SubSeq(paths, 1,
                                                         Min(3, Len(paths)))),
                             !.order = <<>>,
                             !.calls = <<NewCall("batch")>>]]
    /\ UNCHANGED <<sem, aclient, models, gateVars, callVars, mainVars,
                   chunkVars, staging, fetchVars, reportVars>>

\* The overview call has returned; the files of every batch are read and one
\* summarize_project_batch_async per batch is handed to asyncio.gather.
RunBatchesRead(r) ==
    /\ runs[r].pc = "overview"
    /\ runs[r].calls[1].pc = "done"
    /\ runs' = [runs EXCEPT ![r] =
           [@ EXCEPT !.pc = "batches",
                     !.overview = OverviewSection(runs[r].calls[1].result),
                     !.batches = BatchesOf(runs[r].paths),
                     !.reads = @ \o ReadAll(r, runs[r].paths),
                     !.calls = @ \o [b \in DOMAIN BatchesOf(runs[r].paths) |->
                                         NewCall("batch")]]]
    /\ UNCHANGED <<sem, aclient, models, gateVars, callVars, mainVars,
                   chunkVars, staging, fetchVars, reportVars>>

\* The files at locs are removed; os.remove of a file that is not there
\* raises, which is logged.
Removed(st, locs) ==
    [loc \in DOMAIN st |-> IF loc \in Range(locs) THEN Absent ELSE st[loc]]

\* The batch calls have returned; the report is written and, if the write
\* did not raise, the staged files are removed.
RunWriteReport(r) ==
    /\ runs[r].pc = "batches"
    /\ \A k \in DOMAIN runs[r].calls : runs[r].calls[k].pc = "done"
    /\ \E ok \in BOOLEAN :
           /\ staging' = IF ok THEN Removed(staging, runs[r].paths)
                         ELSE staging
           /\ runs' = [runs EXCEPT ![r] =
                  [@ EXCEPT !.pc = "done",
                            !.calls = <<>>,
                            !.order = <<>>,
                            !.body = Gather(Tail(runs[r].calls),
                                            TaskOrder(runs[r].order)),
                            !.report = WriteResult(ok)]]
    /\ UNCHANGED <<sem, aclient, models, gateVars, callVars, mainVars,
                   chunkVars, fetchVars, reportVars>>

RunsNext ==
    \/ \E r \in DOMAIN runs : RunSummarizeFile(r)
    \/ \E r \in DOMAIN runs : RunAcquire(r)
    \/ \E r \in DOMAIN runs : RunPrimaryReturns(r)
    \/ \E r \in DOMAIN runs : RunSleepReturns(r)
    \/ \E r \in DOMAIN runs : RunOpenAIReturns(r)
    \/ \E r \in DOMAIN runs : RunStage(r)
    \/ \E r \in DOMAIN runs : RunSummarizeProject(r)
    \/ \E r \in DOMAIN runs : RunBatchesRead(r)
    \/ \E r \in DOMAIN runs : RunWriteReport(r)

SpecRuns == RunsInit /\ [][RunsNext]_vars

-----------------------------------------------------------------------------
(* Claims about the staged summaries of the runs.                          *)

\* The file of run r with the path p.
FileOf(r, p) ==
    LET i == CHOOSE i \in DOMAIN runs[r].files : runs[r].files[i].path = p
    IN runs[r].files[i]

\* C12: the summary staged for a file of k chunks (k > 0) holds the k chunk
\* results in the order of the chunks, whatever the order the chunk calls
\* returned in, with a delimiter between two results and nowhere else: k - 1
\* delimiters.
C12_SummaryInChunkOrder ==
    \A loc \in DOMAIN staging :
        staging[loc] # Absent =>
            LET summary == staging[loc].summary
                k == Len(Words(FileOf(staging[loc].run,
                                      staging[loc].path).content))
            IN /\ k = 0 => summary = <<>>
               /\ k > 0 =>
                      /\ Len(summary) = 2 * k - 1
                      /\ \A i \in 1..k :
                             /\ summary[2 * i - 1].task = i
                             /\ summary[2 * i - 1].text \in
                                    {"PrimaryText", "OpenAIText",
                                     "OpenAIErrorMarker", "OpenAINoKeyMarker"}
                      /\ \A i \in 1..(k - 1) : summary[2 * i] = Delimiter
                      /\ Len(SelectSeq(summary, LAMBDA x : x = Delimiter))
                             = k - 1

\* The summary of a file of three chunks is staged, two delimiters in it;
\* the call of the third chunk returned first and that of the first last.
C12_Witness ==
    /\ Len(runs) = 1
    /\ runs[1].pc = "summarize_project"
    /\ runs[1].order = <<3, 2, 1>>
    /\ \E loc \in DOMAIN staging :
           /\ staging[loc] # Absent
           /\ Len(SelectSeq(staging[loc].summary, LAMBDA x : x = Delimiter)) = 2

\* C14 (the claim as stated): the files of one run are staged at locations
\* that differ from one another.
C14_DistinctStagingLocations ==
    \A r \in DOMAIN runs :
        \A i, j \in DOMAIN runs[r].results :
            ( /\ i < j
              /\ runs[r].results[i].kind = "path"
              /\ runs[r].results[j].kind = "path" )
                => runs[r].results[i].loc # runs[r].results[j].loc

\* C15 (the claim as stated): what a run's summarize_project reads at a
\* staging location is the summary that run staged there.
C15_RunsReadTheirOwn ==
    \A r \in DOMAIN runs :
        \A i \in DOMAIN runs[r].reads : runs[r].reads[i].saw.run = r

\* A run read a file that the other run had removed.
C15_WitnessRemoved ==
    /\ Len(runs) = 2
    /\ \E i \in DOMAIN runs[2].reads : runs[2].reads[i].saw = Absent

\* A run read, at its staging location, the summary the other run had
\* written there.
C15_WitnessOverwritten ==
    /\ Len(runs) = 2
    /\ \E i \in DOMAIN runs[1].reads : runs[1].reads[i].saw.run = 2

-----------------------------------------------------------------------------
(* github_fetcher.py.  The repository is a tree of directories and files   *)
(* behind the contents API; server is the set of faults of its answers.    *)

\* The tuple of name.lower().endswith(...) in fetch_dir.
DENY_LIST ==
    {".png", ".jpg", ".jpeg", ".gif", ".ico", ".exe", ".dll", ".zip", ".tar",
     ".gz", ".woff", ".woff2", ".ttf", ".eot", ".pdf", ".doc", ".docx",
     ".xls", ".xlsx", ".ppt", ".pptx", ".DS_Store", ".lock", ".log"}

\* str.lower() on the endings of the names of the tree.
Lower(ext) ==
    CASE ext = ".PNG" -> ".png"
      [] ext = ".DS_Store" -> ".ds_store"
      [] OTHER -> ext

File(path, ext) == [type |-> "file", path |-> path, ext |-> ext]
Dir(path) == [type |-> "dir", path |-> path, ext |-> ""]

\* What the contents API lists for each directory of the repository.
DirPaths == {"", "sub", "sub/deep"}
RepoTree ==
    [d \in DirPaths |->
        CASE d = "" -> <<File("a.py", ".py"), File("b.png", ".png"),
                         File("c.md", ".md"), File(".DS_Store", ".DS_Store"),
                         Dir("sub")>>
          [] d = "sub" -> <<File("sub/d.py", ".py"), File("sub/e.PNG", ".PNG"),
                            Dir("sub/deep")>>
          [] d = "sub/deep" -> <<File("sub/deep/f.py", ".py")>>]

IsFile(item) == item.type = "file"
IsDir(item) == item.type = "dir"
FileItems == UNION {Range(SelectSeq(RepoTree[d], IsFile)) : d \in DirPaths}
FilePaths == {item.path : item \in FileItems}
ItemOf(path) == CHOOSE item \in FileItems : item.path = path

\* The faults: a request for the contents of a path answered with an HTTP
\* error status, with another failure (time-out, bad JSON), or with JSON that
\* is neither a list nor a file; a file listed without download_url or
\* without name; a download that fails, or that gives empty content.
ListingFaults == {"http_error", "error", "not_list"}
FileFaults == {"no_url", "no_name", "download_failed", "download_empty"}
Faults ==
    [at : DirPaths \cup FilePaths, kind : ListingFaults]
    \cup [at : FilePaths, kind : FileFaults]

RECURSIVE SubsetsUpTo(_, _)
SubsetsUpTo(S, n) ==
    IF n = 0 THEN {{}}
    ELSE LET smaller == SubsetsUpTo(S, n - 1) IN
         smaller \cup {T \cup {x} : T \in smaller, x \in S}

Has(srv, path, kind) == [at |-> path, kind |-> kind] \in srv

\* fetch_file(client, url): resp.text, or None if the request failed.
fetch_file(srv, path) ==
    IF Has(srv, path, "download_failed") THEN "None"
    ELSE IF Has(srv, path, "download_empty") THEN ""
    ELSE "text"

\* if content: a content that is neither None nor empty.
Truthy(text) == text \notin {"None", ""}

\* item["name"].lower().endswith((...))
Skipped(item) == Lower(item.ext) \in DENY_LIST

\* What fetch_dir gives back: that it raised, or the dict, and the downloads
\* it has issued.
NoFiles == [raised |-> FALSE, files |-> <<>>, downloads |-> {}]
Raises == [raised |-> TRUE, files |-> <<>>, downloads |-> {}]

\* files.update(res) for each res of results, in order.
RECURSIVE UpdateAll(_, _)
UpdateAll(files, results) ==
    IF results = <<>> THEN files
    ELSE UpdateAll(Head(results).files @@ files, Tail(results))

\* files[path] = {"sha": ..., "content": content} for the downloads that gave
\* content.
RECURSIVE Downloaded(_, _)
Downloaded(srv, infos) ==
    IF infos = <<>> THEN <<>>
    ELSE LET path == Head(infos).path
             rest == Downloaded(srv, Tail(infos))
         IN IF Truthy(fetch_file(srv, path))
            THEN (path :> fetch_file(srv, path)) @@ rest
            ELSE rest

\* The single-file branch: data is a dict of type file.  The name is not
\* looked at.
FetchSingleFile(srv, path) ==
    IF Has(srv, path, "no_url") THEN NoFiles
    ELSE [raised |-> FALSE,
          files |-> Downloaded(srv, <<ItemOf(path)>>),
          downloads |-> {path}]

\* fetch_dir(client, owner, repo, path)
RECURSIVE fetch_dir(_, _)
fetch_dir(srv, path) ==
    IF Has(srv, path, "http_error") \/ Has(srv, path, "error") THEN NoFiles
    ELSE IF Has(srv, path, "not_list") THEN NoFiles
    ELSE IF path \in FilePaths THEN FetchSingleFile(srv, path)
    ELSE LET data == RepoTree[path]
             file_items == SelectSeq(data, IsFile)
             dir_items == SelectSeq(data, IsDir)
         IN IF \E i \in DOMAIN file_items :
                   Has(srv, file_items[i].path, "no_name")
            THEN Raises
            ELSE LET file_fetch_info ==
                         SelectSeq(file_items,
                                   LAMBDA item : /\ ~Skipped(item)
                                                 /\ ~Has(srv, item.path, "no_url"))
                     results == [i \in DOMAIN dir_items |->
                                    fetch_dir(srv, dir_items[i].path)]
                     issued == {file_fetch_info[i].path :
                                   i \in DOMAIN file_fetch_info}
                               \cup UNION {results[i].downloads :
                                              i \in DOMAIN results}
                 IN IF \E i \in DOMAIN results : results[i].raised
                    THEN [Raises EXCEPT !.downloads = issued]
                    ELSE [raised |-> FALSE,
                          files |-> UpdateAll(Downloaded(srv, file_fetch_info),
                                              results),
                          downloads |-> issued]

\* fetch_files(owner, repo): the dict of fetch_dir on the root, or the
\* exception it raised.
fetch_files(srv) == fetch_dir(srv, "")

-----------------------------------------------------------------------------
(* SpecFetch: one fetch, by fetch_files or by fetch_dir on a path that is  *)
(* not the root, against a server with at most MaxFetchFaults faults.      *)

FetchInit ==
    /\ sem = GEMINI_CONCURRENCY_LIMIT
    /\ aclient = TRUE
    /\ models = TRUE
    /\ gate = EmptyBag
    /\ returned = 0
    /\ CallIdle
    /\ MainIdle
    /\ ChunkIdle
    /\ RunsIdle
    /\ ReportsIdle
    /\ server \in SubsetsUpTo(Faults, MaxFetchFaults)
    /\ fetched = [pc |-> "idle", call |-> "none", path |-> "",
                  result |-> NoFiles]

FetchFiles ==
    /\ fetched.pc = "idle"
    /\ fetched' = [pc |-> "done", call |-> "fetch_files", path |-> "",
                   result |-> fetch_files(server)]
    /\ UNCHANGED <<sem, aclient, models, gateVars, callVars, mainVars,
                   chunkVars, runVars, reportVars, server>>

FetchDir ==
    /\ fetched.pc = "idle"
    /\ \E path \in (DirPaths \cup FilePaths) \ {""} :
           fetched' = [pc |-> "done", call |-> "fetch_dir", path |-> path,
                       result |-> fetch_dir(server, path)]
    /\ UNCHANGED <<sem, aclient, models, gateVars, callVars, mainVars,
                   chunkVars, runVars, reportVars, server>>

FetchNext == FetchFiles \/ FetchDir

SpecFetch == FetchInit /\ [][FetchNext]_vars

-----------------------------------------------------------------------------
(* Claims about the fetcher.                                               *)

\* The request for the contents of path was answered with a failure.
ListingFailed(srv, path) == \E k \in ListingFaults : Has(srv, path, k)

\* C16 (the claim as stated): when the listing of the root cannot be
\* obtained, fetch_files raises.
C16_RootFailureRaises ==
    ( /\ fetched.pc = "done"
      /\ fetched.call = "fetch_files"
      /\ ListingFailed(server, "") )
        => fetched.result.raised

\* What does hold of C16: no failure to obtain a listing, of the root or of
\* another directory, and no failed download makes fetch_files raise; it
\* raises only on a listing that holds a file without a name.
C16_ListingFailuresAbsorbed ==
    ( /\ fetched.pc = "done"
      /\ fetched.result.raised )
        => \E path \in FilePaths : Has(server, path, "no_name")

\* The ending of the file's name is on the deny-list, whatever its case.
DenyListed(item) == \E d \in DENY_LIST : Lower(item.ext) = Lower(d)

\* The files under path that are reached through listings that were
\* obtained; a path that is a file is reached when its own request was
\* answered.
RECURSIVE Listed(_, _)
Listed(srv, path) ==
    IF ListingFailed(srv, path) THEN {}
    ELSE IF path \in FilePaths THEN {ItemOf(path)}
    ELSE Range(SelectSeq(RepoTree[path], IsFile))
         \cup UNION {Listed(srv, d.path) :
                        d \in Range(SelectSeq(RepoTree[path], IsDir))}

HasContent(srv, item) ==
    /\ ~Has(srv, item.path, "no_url")
    /\ ~Has(srv, item.path, "download_failed")
    /\ ~Has(srv, item.path, "download_empty")

\* C17 (the claim as stated): the mapping a fetch returns has an entry for
\* exactly the files that are reached through listings that were obtained,
\* are not deny-listed, have a download_url and were downloaded with content
\* that is not empty.
C17_ExactEntries ==
    (fetched.pc = "done" /\ ~fetched.result.raised)
        => DOMAIN fetched.result.files
               = {item.path : item \in
                     {x \in Listed(server, fetched.path) :
                         ~DenyListed(x) /\ HasContent(server, x)}}

\* What does hold of C17: the same, with "deny-listed" read as what the
\* check of the directory branch skips, and with no check at all for a file
\* that is fetched by its own path.
C17_ExactButDenyList ==
    (fetched.pc = "done" /\ ~fetched.result.raised)
        => DOMAIN fetched.result.files
               = {item.path : item \in
                     {x \in Listed(server, fetched.path) :
                         /\ x.path = fetched.path \/ ~Skipped(x)
                         /\ HasContent(server, x)}}

\* C18 (the claim as stated): no download is issued for a file whose name
\* ends in an entry of the deny-list.
C18_NoDenyListedDownload ==
    fetched.pc = "done"
        => \A path \in fetched.result.downloads : ~DenyListed(ItemOf(path))

\* A fetch of the whole repository downloaded .DS_Store, whose ending is on
\* the deny-list, and no other deny-listed file.
C18_WitnessDSStore ==
    /\ fetched.pc = "done"
    /\ fetched.call = "fetch_files"
    /\ server = {}
    /\ {path \in fetched.result.downloads : DenyListed(ItemOf(path))}
           = {".DS_Store"}

\* fetch_dir on the path of b.png downloaded it.
C18_WitnessSingleFile ==
    /\ fetched.pc = "done"
    /\ fetched.call = "fetch_dir"
    /\ fetched.path = "b.png"
    /\ "b.png" \in DOMAIN fetched.result.files

-----------------------------------------------------------------------------
(* Claims about the sleeps of the retry ladder.                            *)

\* The seconds of the sleeps of call c, in order.
Sleeps(c) ==
    LET slept == SelectSeq(log[c], LAMBDA e : e.what = "sleep") IN
    [k \in DOMAIN slept |-> slept[k].arg]

\* C25: in a chunk-level call with initial_delay 5 and max_retries 3, the
\* failed attempt n (from 0) that is not the last one is followed by a sleep
\* of the current delay plus 2n seconds when it was a rate limit and of the
\* current delay otherwise, the current delay being initial_delay doubled
\* once for each failed attempt before it; the last failed attempt goes to
\* the fallback with no sleep.
C25_SleepSeconds ==
    \A c \in ChunkIds :
        /\ Len(Sleeps(c)) <= max_retries - 1
        /\ \A k \in DOMAIN Sleeps(c) :
               Sleeps(c)[k] = initial_delay * 2 ^ (k - 1)
                              + (IF script[c][k] = "rate_limited"
                                 THEN 2 * (k - 1) ELSE 0)
        /\ \A i \in DOMAIN log[c] :
               log[c][i].what = "sleep"
                   => /\ log[c][i - 1].what = "primary"
                      /\ log[c][i - 1].arg \in FailureKinds
        /\ calls[c].pc = "sleep" => calls[c].attempt + 1 < max_retries
        /\ calls[c].fallbackCalls = 1 =>
               /\ Len(Sleeps(c)) = max_retries - 1
               /\ \E i \in DOMAIN log[c] :
                      /\ log[c][i].what = "primary"
                      /\ log[c][i].arg \in FailureKinds
                      /\ \A j \in (i + 1)..Len(log[c]) :
                             log[c][j].what = "openai"

\* One chunk-level call that met rate limits only slept 5 and then 12
\* seconds, another that met other errors only slept 5 and then 10 seconds;
\* both went to the fallback after their third failure.
C25_Witness ==
    \E c, d \in ChunkIds :
        /\ Done(c) /\ Done(d)
        /\ Len(script[c]) >= max_retries /\ Len(script[d]) >= max_retries
        /\ \A k \in 1..max_retries : script[c][k] = "rate_limited"
        /\ \A k \in 1..max_retries : script[d][k] = "error"
        /\ Sleeps(c) = <<5, 12>>
        /\ Sleeps(d) = <<5, 10>>
        /\ calls[c].fallbackCalls = 1 /\ calls[d].fallbackCalls = 1

-----------------------------------------------------------------------------
(* SpecGateLive: the semaphore under more gated calls than it has permits, *)
(* LiveChunkCalls of them chunk-level and the others batch-level, where    *)
(* what is awaited comes back: a provider call, a backoff sleep and a      *)
(* fallback call that are awaited return, and the event loop resumes a     *)
(* coroutine that waits for the semaphore once a permit is free.           *)

GateLiveInit ==
    /\ sem = GEMINI_CONCURRENCY_LIMIT
    /\ aclient \in BOOLEAN
    /\ gate = BagOf(NewCall("chunk"), LiveChunkCalls)
              (+) BagOf(NewCall("batch"), NumGateCalls - LiveChunkCalls)
    /\ returned = 0
    /\ models = TRUE
    /\ CallIdle
    /\ MainIdle
    /\ UnitIdle

SpecGateLive ==
    /\ GateLiveInit
    /\ [][GateNext]_vars
    /\ WF_vars(GateAcquire)
    /\ WF_vars(GatePrimaryReturns)
    /\ WF_vars(GateSleepReturns)
    /\ WF_vars(GateOpenAIReturns)

\* Every gated call has returned and every permit is free.
AllReturned ==
    /\ returned = NumGateCalls
    /\ gate = EmptyBag
    /\ sem = GEMINI_CONCURRENCY_LIMIT

\* A call has taken a permit exactly when it is past its wait, and never a
\* second one.
OneAcquire ==
    \A a \in BagToSet(gate) :
        a.acquires = (IF a.pc = "wait" THEN 0 ELSE 1)

\* C23: with more calls pending than the semaphore has permits, no call
\* waits for a second permit while it holds one, and every chunk-level and
\* batch-level call eventually returns and gives its permit back, provided
\* every provider call and every backoff sleep returns.
C23_EveryCallReturns == []OneAcquire /\ <>[]AllReturned

\* Every permit is held, one of them by a call in a backoff sleep, while a
\* call still waits.
C23_WitnessFull ==
    /\ sem = 0
    /\ \E a \in BagToSet(gate) : a.pc = "wait"
    /\ \E a \in BagToSet(gate) : a.pc = "sleep"

\* All the calls, more than there are permits, have returned.
C23_Witness == AllReturned /\ NumGateCalls > GEMINI_CONCURRENCY_LIMIT

-----------------------------------------------------------------------------
(* SpecReports: two calls of summarize_project in one process, each with a *)
(* project name, while time passes.  The name of the report is made at the *)
(* entry of summarize_project, and the report is written after the         *)
(* overview call and the batch calls have returned; the gated calls are    *)
(* those of SpecRuns and are not told apart here.                          *)

\* The clock ticks twice a second.
TicksPerSecond == 2

\* Project names, as sequences of characters: letters, and characters that
\* are neither alphanumeric nor '-' nor '_'.
ProjectNames ==
    {<<"a">>, <<"a", "b">>, <<"a", ".", "b">>, <<"a", "-", "b">>,
     <<"a", " ">>, <<".">>, <<>>}

\* c.isalnum() or c in ('-', '_')
KeptInName(c) == c \in {"a", "b", "-", "_"}

\* "".join(c for c in project_name if ...).rstrip(), and the default name
\* when nothing is left; what is kept holds no white space to strip.
safe_project_name(project_name) ==
    LET kept == SelectSeq(project_name, KeptInName) IN
    IF kept = <<>> THEN <<"AI_Project_Summary">> ELSE kept

\* datetime.now().strftime('%Y%m%d_%H%M%S'): the time cut to the second.
strftime(now) == now \div TicksPerSecond

\* f"{safe_project_name}_summary_{...}.md"
report_filename(project_name, now) ==
    [name |-> safe_project_name(project_name), stamp |-> strftime(now)]

NoReportName == [name |-> <<>>, stamp |-> 0]

NewReporter(project_name) ==
    [pc |-> "call", project_name |-> project_name,
     report_filename |-> NoReportName, wrote |-> FALSE, result |-> "none"]

ReportsInit ==
    /\ sem = GEMINI_CONCURRENCY_LIMIT
    /\ aclient = TRUE
    /\ models \in BOOLEAN
    /\ gate = EmptyBag
    /\ returned = 0
    /\ CallIdle
    /\ MainIdle
    /\ ChunkIdle
    /\ RunsIdle
    /\ FetchIdle
    /\ clock = 0
    /\ \E n1 \in ProjectNames, n2 \in ProjectNames :
           reporters = <<NewReporter(n1), NewReporter(n2)>>
    /\ reports = <<>>

ReportFrame ==
    UNCHANGED <<sem, aclient, models, gateVars, callVars, mainVars,
                chunkVars, runVars, fetchVars>>

\* Time passes.
Tick ==
    /\ clock < MaxClock
    /\ clock' = clock + 1
    /\ UNCHANGED <<reporters, reports>>
    /\ ReportFrame

\* summarize_project up to its first await: without a model the error text
\* is returned; else the name of the report is made from the project name
\* and the time, and the overview call is awaited.
ReportEnter(r) ==
    /\ reporters[r].pc = "call"
    /\ reporters' = [reporters EXCEPT ![r] =
           IF ~models
           THEN [@ EXCEPT !.pc = "done", !.result = "ModelNotInitText"]
           ELSE [@ EXCEPT !.pc = "overview",
                          !.report_filename =
                              report_filename(reporters[r].project_name,
                                              clock)]]
    /\ UNCHANGED <<clock, reports>>
    /\ ReportFrame

\* The overview call has returned; the batch calls are awaited.
ReportOverviewReturns(r) ==
    /\ reporters[r].pc = "overview"
    /\ reporters' = [reporters EXCEPT ![r].pc = "batches"]
    /\ UNCHANGED <<clock, reports>>
    /\ ReportFrame

\* The batch calls have returned; the report is opened for writing at its
\* name, which replaces what was there, and written.
ReportWrite(r) ==
    /\ reporters[r].pc = "batches"
    /\ \E ok \in BOOLEAN :
           /\ reports' = IF ok
                         THEN (reporters[r].report_filename :> r) @@ reports
                         ELSE reports
           /\ reporters' = [reporters EXCEPT ![r] =
                  [@ EXCEPT !.pc = "done", !.wrote = ok,
                            !.result = WriteResult(ok)]]
    /\ UNCHANGED clock
    /\ ReportFrame

ReportsNext ==
    \/ Tick
    \/ \E r \in DOMAIN reporters : ReportEnter(r)
    \/ \E r \in DOMAIN reporters : ReportOverviewReturns(r)
    \/ \E r \in DOMAIN reporters : ReportWrite(r)

SpecReports == ReportsInit /\ [][ReportsNext]_vars

\* C21 (the claim as stated): two runs for the same project name never write
\* their reports to the same name.
C21_ReportNamesDiffer ==
    \A r1, r2 \in DOMAIN reporters :
        ( /\ r1 # r2
          /\ reporters[r1].project_name = reporters[r2].project_name
          /\ reporters[r1].wrote /\ reporters[r2].wrote )
            => reporters[r1].report_filename # reporters[r2].report_filename

\* Two runs for one project name have both written, and the report of the
\* first is what the second wrote.
C21_WitnessOverwritten ==
    /\ reporters[1].project_name = reporters[2].project_name
    /\ reporters[1].wrote /\ reporters[2].wrote
    /\ reports[reporters[1].report_filename] = 2

-----------------------------------------------------------------------------
(* Claims about the events of summarize_files_stream, file by file.        *)

\* The events of the stream st that name the file at path.
FileEvents(st, type, path) ==
    SelectSeq(st.events, LAMBDA e : e.type = type /\ e.path = path)

\* C22 (the part a stream reaches): every file the loop is done with has
\* yielded exactly one event, a file_summary or an error, and its staging
\* location is in file_summary_paths exactly if it was a file_summary.
C22_OneEventPerFile ==
    \A i \in DOMAIN stream.todo :
        LET path == stream.todo[i].path
            summaries == Len(FileEvents(stream, "file_summary", path))
            errors == Len(FileEvents(stream, "error", path))
        IN /\ i < stream.idx => summaries + errors = 1
           /\ i >= stream.idx => summaries + errors = 0
           /\ (StagingLocation(path) \in Range(stream.file_summary_paths))
                  <=> summaries = 1

\* The loop is done with two files, each with an error event, and no
\* staging location was kept for the aggregation.
C22_WitnessErrors ==
    /\ stream.pc = "done"
    /\ stream.idx > 2
    /\ \A i \in 1..2 :
           Len(FileEvents(stream, "error", stream.todo[i].path)) = 1
    /\ stream.file_summary_paths = <<>>

-----------------------------------------------------------------------------
(* Claims about the order of the events of summarize_files_stream.         *)

IsStatus(e, arg) == e.type = "status" /\ e.arg = arg
IsFileResult(e) == e.type \in {"file_summary", "error"} /\ e.path # <<>>

\* The paths of the Summarizing statuses, in the order they were yielded.
Summarized(st) ==
    LET started == StatusEvents(st, "Summarizing") IN
    [k \in DOMAIN started |-> started[k].path]

\* The paths of the mapping that pass the filter, in the mapping's order.
FilteredPaths(files) ==
    LET kept == SelectSeq(files, PassesFilter) IN
    [k \in DOMAIN kept |-> kept[k].path]

\* The order of the events yielded so far.
EventsInOrder ==
    LET ev == stream.events IN
    /\ \A i \in DOMAIN ev :
           /\ IsStatus(ev[i], "Fetching") => i = 1
           /\ IsStatus(ev[i], "Summarizing") /\ i < Len(ev)
                  => IsFileResult(ev[i + 1]) /\ ev[i + 1].path = ev[i].path
           /\ IsFileResult(ev[i])
                  => /\ i > 1
                     /\ IsStatus(ev[i - 1], "Summarizing")
                     /\ ev[i - 1].path = ev[i].path
           /\ IsStatus(ev[i], "GeneratingFinal")
                  => \A j \in DOMAIN ev : ev[j].path # <<>> => j < i
           /\ ev[i].type = "project_summary_file"
                  => /\ \E j \in 1..(i - 1) : IsStatus(ev[j], "GeneratingFinal")
                     /\ \A j \in DOMAIN ev :
                            IsStatus(ev[j], "Completed") => i < j
           /\ IsStatus(ev[i], "Completed")
                  => i = Len(ev) /\ stream.pc = "done"
    /\ ev # <<>> /\ ~IsStatus(ev[1], "Fetching")
           => Len(ev) = 1 /\ ev[1].arg = "InvalidURL"
    /\ Len(Summarized(stream)) <= Len(FilteredPaths(stream.files))
    /\ Summarized(stream)
           = SubSeq(FilteredPaths(stream.files), 1, Len(Summarized(stream)))

\* A Summarizing status is yielded only by the step from the head of the
\* loop whose disconnect check found the client connected.
CheckBeforeStep ==
    Len(Summarized(stream')) > Len(Summarized(stream))
        => stream.pc = "check" /\ ~disconnected

\* C24: the Fetching status is the first event; the files are taken one at
\* a time in the order of the filtered mapping, the Summarizing status of a
\* file right before its file_summary or error event, and the disconnect
\* check before each file's step; the Generating status comes after all
\* events of the files; the project_summary_file event comes before the
\* Completed status, which is the last event.
C24_EventOrder == []EventsInOrder /\ [][CheckBeforeStep]_vars

\* A stream over a mapping with a file that does not pass the filter
\* between two that do has taken up both of these, in the mapping's order.
C24_Witness ==
    /\ Len(stream.events) >= 6
    /\ IsStatus(stream.events[1], "Fetching")
    /\ Len(Summarized(stream)) >= 2
    /\ Len(stream.files) > Len(FilteredPaths(stream.files))
    /\ IsFileResult(stream.events[Len(stream.events) - 1])
    /\ stream.pc = "done"

====
